---------------------------- MODULE Spec2Model ----------------------------
(***************************************************************************)
(* Release tasks of dash-bootstrap-components (tasks.py).                  *)
(*                                                                         *)
(* A text (a str of the source) is a sequence of characters.  A literal of *)
(* the source that the code only ever handles whole, such as the prefix    *)
(* "__version__ = " or a command's words, is written as one element.       *)
(* Where the code counts characters (the underline of the release-notes    *)
(* template) or parses them (the version), the text is spelled out.        *)
(***************************************************************************)
EXTENDS Integers, Sequences, FiniteSets, TLC

VARIABLES
    task,                 \* the task named on the command line
    version,              \* its version argument, as typed
    which,                \* the executables found on the search path
    editor_saves,         \* what the user leaves in the file of the editor session
    pc,                   \* the steps still to run, the next one first
    status,               \* "running" | "exited"
    exit_code,            \* the exit status of the process once exited, -1 before
    outcome,              \* how the process ended
    fs,                   \* path -> content of the files the tasks read and write
    cwd,                  \* the working directory of the process
    git,                  \* the repository: HEAD, branches, index, tags, remotes
    release_notes_lines,  \* what get_release_notes returned (None before)
    trace                 \* what the process did so far, in order: files written,
                          \* commands run, editor sessions, changes of directory

vars == <<task, version, which, editor_saves, pc, status, exit_code, outcome,
          fs, cwd, git, release_notes_lines, trace>>

(***************************************************************************)
(* Bounds of the model.                                                    *)
(***************************************************************************)
\* lines of a file handed to the version writers
MaxLines == 3
\* lines the user leaves in the editor
MaxNotes == 3

(***************************************************************************)
(* Texts.                                                                  *)
(***************************************************************************)
None == <<>>
Some(x) == <<x>>

NL == "\n"
Whitespace == {" ", NL, "\t"}

\* s.startswith(prefix)
StartsWith(s, prefix) ==
    /\ Len(prefix) <= Len(s)
    /\ SubSeq(s, 1, Len(prefix)) = prefix

\* sub in s
Contains(s, sub) ==
    \E i \in 1..(Len(s) - Len(sub) + 1) : SubSeq(s, i, i + Len(sub) - 1) = sub

\* s.isspace(): at least one character and all of them whitespace
isspace(s) ==
    /\ Len(s) > 0
    /\ \A i \in 1..Len(s) : s[i] \in Whitespace

\* the first position of character c in s, 0 when there is none
IndexOf(s, c) ==
    IF \E i \in 1..Len(s) : s[i] = c
    THEN CHOOSE i \in 1..Len(s) : s[i] = c /\ \A j \in 1..(i - 1) : s[j] # c
    ELSE 0

\* "".join(lines)
RECURSIVE join(_)
join(lines) ==
    IF lines = <<>> THEN <<>> ELSE Head(lines) \o join(Tail(lines))

\* c * n
RECURSIVE Repeat(_, _)
Repeat(c, n) ==
    IF n = 0 THEN <<>> ELSE <<c>> \o Repeat(c, n - 1)

\* f.readlines(): the content cut after every newline, the newline kept
RECURSIVE readlines(_)
readlines(content) ==
    IF content = <<>> THEN <<>>
    ELSE LET n == IndexOf(content, NL)
         IN  IF n = 0 THEN <<content>>
             ELSE <<SubSeq(content, 1, n)>>
                      \o readlines(SubSeq(content, n + 1, Len(content)))

\* the lines written with a newline after each, as print would
writelines_with_newlines(lines) ==
    join([i \in 1..Len(lines) |-> lines[i] \o <<NL>>])

\* f.writelines(lines): the lines one after the other, nothing added
writelines(lines) == join(lines)

(***************************************************************************)
(* semver, as far as tasks.py uses it: parse_version_info, str of the      *)
(* parsed version, bump_patch.                                             *)
(***************************************************************************)
Digits == <<"0", "1", "2", "3", "4", "5", "6", "7", "8", "9">>
Letters == {"r", "c", "d", "e", "v", "a", "b"}

IsDigit(c) == \E i \in 1..Len(Digits) : Digits[i] = c
DigitValue(c) == (CHOOSE i \in 1..Len(Digits) : Digits[i] = c) - 1
IsIdentChar(c) == IsDigit(c) \/ c \in Letters \/ c = "-"

\* 0|[1-9][0-9]*
IsNumeric(s) ==
    /\ Len(s) > 0
    /\ \A i \in 1..Len(s) : IsDigit(s[i])
    /\ Len(s) > 1 => s[1] # "0"

\* int(s)
RECURSIVE ToInt(_)
ToInt(s) ==
    IF s = <<>> THEN 0
    ELSE ToInt(SubSeq(s, 1, Len(s) - 1)) * 10 + DigitValue(s[Len(s)])

\* "%d" % n
RECURSIVE ToText(_)
ToText(n) ==
    IF n < 10 THEN <<Digits[n + 1]>>
    ELSE ToText(n \div 10) \o <<Digits[(n % 10) + 1]>>

\* s.split(sep)
RECURSIVE Split(_, _)
Split(s, sep) ==
    LET n == IndexOf(s, sep)
    IN  IF n = 0 THEN <<s>>
        ELSE <<SubSeq(s, 1, n - 1)>> \o Split(SubSeq(s, n + 1, Len(s)), sep)

\* dot-separated identifiers of [0-9A-Za-z-]; in a pre-release no numeric
\* identifier has a leading zero
IsIdentifiers(s, prerelease) ==
    LET parts == Split(s, ".")
    IN  \A i \in 1..Len(parts) :
            /\ Len(parts[i]) > 0
            /\ \A j \in 1..Len(parts[i]) : IsIdentChar(parts[i][j])
            /\ (prerelease /\ \A j \in 1..Len(parts[i]) : IsDigit(parts[i][j]))
                   => IsNumeric(parts[i])

\* semver.parse_version_info: major.minor.patch[-prerelease][+build]
parse_version_info(v) ==
    LET plus  == IndexOf(v, "+")
        left  == IF plus = 0 THEN v ELSE SubSeq(v, 1, plus - 1)
        build == IF plus = 0 THEN None ELSE Some(SubSeq(v, plus + 1, Len(v)))
        dash  == IndexOf(left, "-")
        core  == IF dash = 0 THEN left ELSE SubSeq(left, 1, dash - 1)
        pre   == IF dash = 0 THEN None
                 ELSE Some(SubSeq(left, dash + 1, Len(left)))
        nums  == Split(core, ".")
        ok    == /\ Len(nums) = 3
                 /\ \A i \in 1..3 : IsNumeric(nums[i])
                 /\ pre # None => IsIdentifiers(pre[1], TRUE)
                 /\ build # None => IsIdentifiers(build[1], FALSE)
    IN  IF ok
        THEN [valid |-> TRUE, major |-> ToInt(nums[1]), minor |-> ToInt(nums[2]),
              patch |-> ToInt(nums[3]), prerelease |-> pre, build |-> build]
        ELSE [valid |-> FALSE, major |-> 0, minor |-> 0, patch |-> 0,
              prerelease |-> None, build |-> None]

\* semver.format_version
format_version(major, minor, patch, prerelease, build) ==
    ToText(major) \o <<".">> \o ToText(minor) \o <<".">> \o ToText(patch)
        \o (IF prerelease = None THEN <<>> ELSE <<"-">> \o prerelease[1])
        \o (IF build = None THEN <<>> ELSE <<"+">> \o build[1])

\* semver raises ValueError on a string that is no semantic version
RaisesValueError(v) == ~parse_version_info(v).valid

\* normalize_version(version), for a version that parses
normalize_version(v) ==
    LET version_info == parse_version_info(v)
    IN  format_version(version_info.major, version_info.minor,
                       version_info.patch, version_info.prerelease,
                       version_info.build)

\* semver.bump_patch(version): the patch raised, pre-release and build dropped
bump_patch(v) ==
    LET version_info == parse_version_info(v)
    IN  format_version(version_info.major, version_info.minor,
                       version_info.patch + 1, None, None)

(***************************************************************************)
(* The templates.                                                          *)
(***************************************************************************)
VERSION_PREFIX == "__version__ = "
JS_MARKER == "\"version\""
DOCS_MARKER == "dash_bootstrap_components"

VERSION_TEMPLATE(version_string) ==
    <<VERSION_PREFIX, "\"">> \o version_string \o <<"\"", NL>>

TEST_VERSION_TEMPLATE(version_string) ==
    <<"from dash_bootstrap_components import __version__", NL, NL, NL,
      "def test_version():", NL,
      "    assert __version__ == ", "\"">> \o version_string \o <<"\"", NL>>

VersionHeading(version_string) ==
    <<"V", "e", "r", "s", "i", "o", "n", " ">> \o version_string

RELEASE_NOTES_TEMPLATE(version_string, underline) ==
    <<"#", " Write the release notes here", NL,
      "#", " Delete the version title to cancel", NL>>
        \o VersionHeading(version_string) \o <<NL>> \o underline \o <<NL>>

(***************************************************************************)
(* The version writers, on the lines of the file.                          *)
(***************************************************************************)
\* [line.startswith("__version__ = ") for line in lines].index(True);
\* 0 stands for the ValueError of index() when no line matches
version_line_index(lines) ==
    IF \E i \in 1..Len(lines) : StartsWith(lines[i], <<VERSION_PREFIX>>)
    THEN CHOOSE i \in 1..Len(lines) :
             /\ StartsWith(lines[i], <<VERSION_PREFIX>>)
             /\ \A j \in 1..(i - 1) : ~StartsWith(lines[j], <<VERSION_PREFIX>>)
    ELSE 0

\* set_pyversion writing the template alone, as it does for the test file
pyversion_template_only(lines, version_string) ==
    <<VERSION_TEMPLATE(version_string)>>

\* set_pyversion replacing every matching line, as the other writers do
pyversion_all_lines(lines, version_string) ==
    [iline \in 1..Len(lines) |->
        IF StartsWith(lines[iline], <<VERSION_PREFIX>>)
        THEN VERSION_TEMPLATE(version_string)
        ELSE lines[iline]]

\* set_pyversion, lines 190-191: the first matching line is replaced
pyversion_lines(lines, version_string) ==
    [lines EXCEPT ![version_line_index(lines)] = VERSION_TEMPLATE(version_string)]

\* the version line of package.json written without its comma
jsversion_line_without_comma(version_string) ==
    <<" ", " ", JS_MARKER, ":", " ", "\"">> \o version_string \o <<"\"", NL>>

\* f'  "version": "{version}",\n'
jsversion_line(version_string) ==
    <<" ", " ", JS_MARKER, ":", " ", "\"">> \o version_string \o <<"\"", ",", NL>>

\* set_jsversion, lines 206-208: every line holding "version" is replaced
jsversion_lines(package_json, version_string) ==
    [iline \in 1..Len(package_json) |->
        IF Contains(package_json[iline], <<JS_MARKER>>)
        THEN jsversion_line(version_string)
        ELSE package_json[iline]]

\* f"dash_bootstrap_components=={version}\n"
documentation_line(version_string) ==
    <<DOCS_MARKER, "==">> \o version_string \o <<NL>>

\* set_documentation_version, lines 218-221
documentation_lines(docs_requirements, version_string) ==
    [iline \in 1..Len(docs_requirements) |->
        IF Contains(docs_requirements[iline], <<DOCS_MARKER>>)
        THEN documentation_line(version_string)
        ELSE docs_requirements[iline]]

(***************************************************************************)
(* The release notes, from the lines the editor session left.              *)
(***************************************************************************)
\* [line for line in lines if not line.startswith("#")]
RECURSIVE non_commented(_)
non_commented(lines) ==
    IF lines = <<>> THEN <<>>
    ELSE (IF StartsWith(Head(lines), <<"#">>) THEN <<>> ELSE <<Head(lines)>>)
             \o non_commented(Tail(lines))

\* get_release_notes looking for the version in all the lines, comments too
collect_release_notes_any_line(lines, version_string) ==
    LET non_commented_lines == non_commented(lines)
        changelog == join(lines)
    IN  IF Contains(changelog, version_string) /\ non_commented_lines # <<>>
        THEN IF ~isspace(non_commented_lines[Len(non_commented_lines)])
             THEN Some(Append(non_commented_lines, <<NL>>))
             ELSE Some(non_commented_lines)
        ELSE None

\* get_release_notes, lines 233-240, version_string the normalized version
collect_release_notes(lines, version_string) ==
    LET non_commented_lines == non_commented(lines)
        changelog == join(non_commented_lines)
    IN  IF Contains(changelog, version_string)
        THEN IF ~isspace(non_commented_lines[Len(non_commented_lines)])
             THEN Some(Append(non_commented_lines, <<NL>>))
             ELSE Some(non_commented_lines)
        ELSE None

\* the message the editor opens with, lines 228-231
initial_message(version_string) ==
    RELEASE_NOTES_TEMPLATE(version_string,
                           Repeat("=", Len(VersionHeading(version_string))))

(***************************************************************************)
(* Paths.  HERE is the directory of tasks.py; a relative path is resolved  *)
(* against the working directory of the process.                           *)
(***************************************************************************)
HERE == "/repo"
JS_DIR == HERE
DOCS_DIR == "/repo/docs"
INIT_PATH == "/repo/dash_bootstrap_components/__init__.py"
TEST_VERSION_PATH == "/repo/tests/test_version.py"
PACKAGE_JSON_PATH == "/repo/package.json"
DOCS_REQUIREMENTS_PATH == "/repo/docs/requirements.txt"
CHANGELOG == "changelog.tmp"

Resolve(dir, path) == dir \o "/" \o path

\* open(path, "w") and the write: the file is created or replaced
WriteFile(f, path, content) ==
    [p \in (DOMAIN f) \cup {path} |-> IF p = path THEN content ELSE f[p]]

(***************************************************************************)
(* The tasks as the steps they run, in order.  A step is an operation and  *)
(* its argument; "finally" holds the directory that the enclosing          *)
(* try/finally of build_js restores when the step ends the process.        *)
(***************************************************************************)
Step(op, arg) == [op |-> op, arg |-> arg, finally |-> None]
Cmd(command) == Step("run", command)
InTry(step, dir) == [step EXCEPT !.finally = Some(dir)]

DEV_SUFFIX == <<"-", "d", "e", "v">>

clean ==
    <<Cmd(<<"rm -rf ", "dash_bootstrap_components/_components">>),
      Cmd(<<"rm -rf ", "dist/">>),
      Cmd(<<"rm -rf ", "lib/">>)>>

build_js ==
    <<Step("chdir", <<JS_DIR>>),
      InTry(Cmd(<<"npm install">>), HERE),
      InTry(Cmd(<<"npm publish">>), HERE),
      Step("chdir", <<HERE>>)>>

release_python_sdist ==
    <<Cmd(<<"rm -f ", "dist/*">>),
      Cmd(<<"python setup.py sdist">>),
      Step("invoke_run", <<"twine upload ", "dist/*">>)>>

build_publish(v) ==
    clean
        \o <<Step("set_pyversion", v), Step("set_jsversion", v)>>
        \o build_js
        \o release_python_sdist

\* prerelease pinning the documentation requirement as release does
prerelease_pins_documentation(v) ==
    <<Step("check_prerequisites", <<>>), Step("set_documentation_version", v)>>
        \o build_publish(v)

prerelease(v) ==
    <<Step("check_prerequisites", <<>>)>> \o build_publish(v)

\* release pushing the branch without --tags
release_pushes_branch_only(v) ==
    <<Step("check_prerequisites", <<>>),
      Step("set_documentation_version", v),
      Step("get_release_notes", v),
      Step("exit_if_no_notes", <<>>),
      Step("write_changelog", <<>>)>>
        \o build_publish(v)
        \o <<Cmd(<<"git checkout -b ", "release-">> \o v),
             Cmd(<<"git add ", "package.json", " ", "package-lock.json", " ",
                   "docs/requirements.txt", " ",
                   "dash_bootstrap_components/_version.py">>),
             Cmd(<<"git commit -m ", "\"", "Bump version to ">> \o v \o <<"\"">>),
             Cmd(<<"git tag -a ", "\"">> \o v \o <<"\"", " ", "-F", " ", CHANGELOG>>),
             Cmd(<<"git push origin ", "release-">> \o v)>>

\* release pinning the documentation requirement once the notes are in
release_pins_after_notes(v) ==
    <<Step("check_prerequisites", <<>>),
      Step("get_release_notes", v),
      Step("exit_if_no_notes", <<>>),
      Step("set_documentation_version", v),
      Step("write_changelog", <<>>)>>
        \o build_publish(v)
        \o <<Cmd(<<"git checkout -b ", "release-">> \o v),
             Cmd(<<"git add ", "package.json", " ", "package-lock.json", " ",
                   "docs/requirements.txt", " ",
                   "dash_bootstrap_components/_version.py">>),
             Cmd(<<"git commit -m ", "\"", "Bump version to ">> \o v \o <<"\"">>),
             Cmd(<<"git tag -a ", "\"">> \o v \o <<"\"", " ", "-F", " ", CHANGELOG>>),
             Cmd(<<"git push origin ", "release-">> \o v \o <<" ", "--tags">>)>>

\* release tagging before it commits
release_tags_before_commit(v) ==
    <<Step("check_prerequisites", <<>>),
      Step("set_documentation_version", v),
      Step("get_release_notes", v),
      Step("exit_if_no_notes", <<>>),
      Step("write_changelog", <<>>)>>
        \o build_publish(v)
        \o <<Cmd(<<"git checkout -b ", "release-">> \o v),
             Cmd(<<"git add ", "package.json", " ", "package-lock.json", " ",
                   "docs/requirements.txt", " ",
                   "dash_bootstrap_components/_version.py">>),
             Cmd(<<"git tag -a ", "\"">> \o v \o <<"\"", " ", "-F", " ", CHANGELOG>>),
             Cmd(<<"git commit -m ", "\"", "Bump version to ">> \o v \o <<"\"">>),
             Cmd(<<"git push origin ", "release-">> \o v \o <<" ", "--tags">>)>>

release(v) ==
    <<Step("check_prerequisites", <<>>),
      Step("set_documentation_version", v),
      Step("get_release_notes", v),
      Step("exit_if_no_notes", <<>>),
      Step("write_changelog", <<>>)>>
        \o build_publish(v)
        \o <<Cmd(<<"git checkout -b ", "release-">> \o v),
             Cmd(<<"git add ", "package.json", " ", "package-lock.json", " ",
                   "docs/requirements.txt", " ",
                   "dash_bootstrap_components/_version.py">>),
             Cmd(<<"git commit -m ", "\"", "Bump version to ">> \o v \o <<"\"">>),
             Cmd(<<"git tag -a ", "\"">> \o v \o <<"\"", " ", "-F", " ", CHANGELOG>>),
             Cmd(<<"git push origin ", "release-">> \o v \o <<" ", "--tags">>)>>

copy_examples ==
    <<Cmd(<<"cp ", "examples/gallery/iris-kmeans/app.py", " ",
            "docs/examples/vendor/iris.py">>),
      Cmd(<<"cp ", "examples/advanced-component-usage/graphs_in_tabs.py", " ",
            "docs/examples/vendor/graphs_in_tabs.py">>),
      Cmd(<<"cp ", "examples/multi-page-apps/simple_sidebar.py", " ",
            "docs/examples/vendor/simple_sidebar.py">>)>>

\* @task(copy_examples): copy_examples runs first
documentation ==
    copy_examples
        \o <<Cmd(<<"git checkout -b ", "inv-push-docs">>),
             Cmd(<<"git add ", "docs/examples/vendor/*.py", " ", "-f">>),
             Cmd(<<"git commit -m ", "\"", "Add examples", "\"", " ",
                   "--allow-empty">>),
             Cmd(<<"git subtree split --prefix docs -b ",
                   "inv-push-docs-subtree">>),
             Cmd(<<"git push -f heroku ", "inv-push-docs-subtree", ":", "master">>),
             Cmd(<<"git checkout ", "master">>),
             Cmd(<<"git branch -D ", "inv-push-docs", " ",
                   "inv-push-docs-subtree">>)>>

\* postrelease writing the bumped version without the "-dev" suffix
postrelease_without_dev(v) ==
    LET new_version == bump_patch(v)
    IN  documentation
            \o <<Step("bump_patch", v),
                 Step("set_pyversion", new_version),
                 Step("set_jsversion", new_version),
                 Cmd(<<"git checkout -b ", "postrelease-">> \o v),
                 Cmd(<<"git add ", "package.json", " ", "package-lock.json", " ",
                       "dash_bootstrap_components/_version.py">>),
                 Cmd(<<"git commit -m ", "\"", "Back to dev", "\"">>),
                 Cmd(<<"git push origin ", "postrelease-">> \o v)>>

\* postrelease declared without its pre-task
postrelease_without_documentation(v) ==
    LET new_version == bump_patch(v) \o DEV_SUFFIX
    IN  <<Step("bump_patch", v),
          Step("set_pyversion", new_version),
          Step("set_jsversion", new_version),
          Cmd(<<"git checkout -b ", "postrelease-">> \o v),
          Cmd(<<"git add ", "package.json", " ", "package-lock.json", " ",
                "dash_bootstrap_components/_version.py">>),
          Cmd(<<"git commit -m ", "\"", "Back to dev", "\"">>),
          Cmd(<<"git push origin ", "postrelease-">> \o v)>>

\* @task(documentation, ...): documentation runs first
postrelease(v) ==
    LET new_version == bump_patch(v) \o DEV_SUFFIX
    IN  documentation
            \o <<Step("bump_patch", v),
                 Step("set_pyversion", new_version),
                 Step("set_jsversion", new_version),
                 Cmd(<<"git checkout -b ", "postrelease-">> \o v),
                 Cmd(<<"git add ", "package.json", " ", "package-lock.json", " ",
                       "dash_bootstrap_components/_version.py">>),
                 Cmd(<<"git commit -m ", "\"", "Back to dev", "\"">>),
                 Cmd(<<"git push origin ", "postrelease-">> \o v)>>

Tasks == {"prerelease", "release", "postrelease", "documentation", "copy_examples"}
VersionTasks == {"prerelease", "release", "postrelease"}

Workflow(t, v) ==
    CASE t = "prerelease" -> prerelease(v)
      [] t = "release" -> release(v)
      [] t = "postrelease" -> postrelease(v)
      [] t = "documentation" -> documentation
      [] t = "copy_examples" -> copy_examples

(***************************************************************************)
(* git, as far as the tasks drive it.  A command is its leading words and  *)
(* then its arguments, separated by blanks.                                *)
(***************************************************************************)
Args(command) == Split(Tail(command), " ")
Unquote(s) == SubSeq(s, 2, Len(s) - 1)
MASTER == <<"master">>

\* git creating a branch over an existing one, as with checkout -B
git_overwrites_branches(command, g, f, dir) ==
    LET verb == Head(command)
        args == Args(command)
    IN  CASE verb = "git checkout " -> args[1] \notin DOMAIN g.branches
          [] verb = "git branch -D " ->
                 \E i \in 1..Len(args) :
                     args[i] \notin DOMAIN g.branches \/ args[i] = g.head
          [] verb = "git tag -a " ->
                 \/ Resolve(dir, args[3][1]) \notin DOMAIN f
                 \/ \E t \in g.tags : t.name = Unquote(args[1])
          [] OTHER -> FALSE

\* git exits 128 without doing anything: the branch to create exists, the
\* branch to check out or delete does not, the tag exists or its message
\* file cannot be read
git_refuses(command, g, f, dir) ==
    LET verb == Head(command)
        args == Args(command)
    IN  CASE verb = "git checkout -b " -> args[1] \in DOMAIN g.branches
          [] verb = "git subtree split --prefix docs -b " ->
                 args[1] \in DOMAIN g.branches
          [] verb = "git checkout " -> args[1] \notin DOMAIN g.branches
          [] verb = "git branch -D " ->
                 \E i \in 1..Len(args) :
                     args[i] \notin DOMAIN g.branches \/ args[i] = g.head
          [] verb = "git tag -a " ->
                 \/ Resolve(dir, args[3][1]) \notin DOMAIN f
                 \/ \E t \in g.tags : t.name = Unquote(args[1])
          [] OTHER -> FALSE

\* the repository after a git command that exits 0
git_effect(command, g, f, dir) ==
    LET verb == Head(command)
        args == Args(command)
    IN  CASE verb \in {"git checkout -b ", "git subtree split --prefix docs -b "} ->
                 [g EXCEPT
                    !.head = IF verb = "git checkout -b " THEN args[1] ELSE @,
                    !.branches = [b \in (DOMAIN @) \cup {args[1]} |->
                                     IF b = args[1] THEN g.branches[g.head]
                                     ELSE g.branches[b]]]
          [] verb = "git checkout " -> [g EXCEPT !.head = args[1]]
          [] verb = "git branch -D " ->
                 [g EXCEPT !.branches =
                     [b \in (DOMAIN @) \ {args[i] : i \in 1..Len(args)} |->
                         g.branches[b]]]
          [] verb = "git add " ->
                 [g EXCEPT !.index =
                     @ \cup {Resolve(dir, args[i][1]) :
                                 i \in {j \in 1..Len(args) : args[j] # <<"-f">>}}]
          [] verb = "git commit -m " ->
                 [g EXCEPT
                    !.branches[g.head] =
                        Append(@, [message |-> Unquote(args[1]), files |-> g.index]),
                    !.index = {}]
          [] verb = "git tag -a " ->
                 [g EXCEPT !.tags =
                     @ \cup {[name |-> Unquote(args[1]),
                              annotation |-> f[Resolve(dir, args[3][1])],
                              commits |-> g.branches[g.head]]}]
          [] verb = "git push origin " ->
                 [g EXCEPT !.pushed =
                     @ \cup {[remote |-> "origin", kind |-> "branch", name |-> args[1]]}
                       \cup (IF Len(args) > 1 /\ args[2] = <<"--tags">>
                             THEN {[remote |-> "origin", kind |-> "tag",
                                    name |-> t.name] : t \in g.tags}
                             ELSE {})]
          [] verb = "git push -f heroku " ->
                 [g EXCEPT !.pushed =
                     @ \cup {[remote |-> "heroku", kind |-> "branch", name |-> MASTER]}]
          [] OTHER -> g

(***************************************************************************)
(* The process.                                                            *)
(***************************************************************************)
Executables == <<"twine", "npm", "dash-generate-components">>
EXIT_PREREQUISITE == 127

\* exit statuses of an external command
ExitCodes == {0, 1, 2}

Running(op) ==
    /\ status = "running"
    /\ pc # <<>>
    /\ Head(pc).op = op

Advance ==
    /\ pc' = Tail(pc)
    /\ UNCHANGED <<status, exit_code, outcome>>

\* exit(code), or an exception no caller catches: the process ends here
Exit(code, how) ==
    /\ status' = "exited"
    /\ exit_code' = code
    /\ outcome' = how
    /\ pc' = pc

\* an uncaught ValueError: traceback, exit status 1
Raise == Exit(1, "value_error")

Event(op, arg, exited) == [op |-> op, arg |-> arg, exited |-> exited]
Written(path) == Event("write", <<path>>, 0)

\* check_prerequisites reporting the missing executable without exit(127)
check_prerequisites_reports_only ==
    /\ Running("check_prerequisites")
    /\ Advance
    /\ UNCHANGED <<task, version, which, editor_saves, fs, cwd, git,
                   release_notes_lines, trace>>

\* check_prerequisites: exit(127) at the first executable that is missing
check_prerequisites ==
    /\ Running("check_prerequisites")
    /\ IF \E i \in 1..Len(Executables) : Executables[i] \notin which
       THEN Exit(EXIT_PREREQUISITE, "prerequisite")
       ELSE Advance
    /\ UNCHANGED <<task, version, which, editor_saves, fs, cwd, git,
                   release_notes_lines, trace>>

\* set_pyversion: __init__.py rewritten, tests/test_version.py generated
set_pyversion ==
    /\ Running("set_pyversion")
    /\ LET v == Head(pc).arg
           lines == readlines(fs[INIT_PATH])
       IN  IF RaisesValueError(v) \/ version_line_index(lines) = 0
           THEN Raise /\ UNCHANGED <<fs, trace>>
           ELSE /\ fs' = WriteFile(
                            WriteFile(fs, INIT_PATH,
                                      writelines(pyversion_lines(
                                          lines, normalize_version(v)))),
                            TEST_VERSION_PATH,
                            TEST_VERSION_TEMPLATE(normalize_version(v)))
                /\ trace' = trace \o <<Written(INIT_PATH), Written(TEST_VERSION_PATH)>>
                /\ Advance
    /\ UNCHANGED <<task, version, which, editor_saves, cwd, git, release_notes_lines>>

\* set_jsversion: package.json rewritten
set_jsversion ==
    /\ Running("set_jsversion")
    /\ LET v == Head(pc).arg
           package_json == readlines(fs[PACKAGE_JSON_PATH])
       IN  IF RaisesValueError(v)
           THEN Raise /\ UNCHANGED <<fs, trace>>
           ELSE /\ fs' = WriteFile(fs, PACKAGE_JSON_PATH,
                                   writelines(jsversion_lines(
                                       package_json, normalize_version(v))))
                /\ trace' = Append(trace, Written(PACKAGE_JSON_PATH))
                /\ Advance
    /\ UNCHANGED <<task, version, which, editor_saves, cwd, git, release_notes_lines>>

\* set_documentation_version writing the version as typed, never parsed
set_documentation_version_unchecked ==
    /\ Running("set_documentation_version")
    /\ LET v == Head(pc).arg
           docs_requirements == readlines(fs[DOCS_REQUIREMENTS_PATH])
       IN  /\ fs' = WriteFile(fs, DOCS_REQUIREMENTS_PATH,
                              writelines(documentation_lines(docs_requirements, v)))
           /\ trace' = Append(trace, Written(DOCS_REQUIREMENTS_PATH))
           /\ Advance
    /\ UNCHANGED <<task, version, which, editor_saves, cwd, git, release_notes_lines>>

\* set_documentation_version: docs/requirements.txt rewritten
set_documentation_version ==
    /\ Running("set_documentation_version")
    /\ LET v == Head(pc).arg
           docs_requirements == readlines(fs[DOCS_REQUIREMENTS_PATH])
       IN  IF RaisesValueError(v)
           THEN Raise /\ UNCHANGED <<fs, trace>>
           ELSE /\ fs' = WriteFile(fs, DOCS_REQUIREMENTS_PATH,
                                   writelines(documentation_lines(
                                       docs_requirements, normalize_version(v))))
                /\ trace' = Append(trace, Written(DOCS_REQUIREMENTS_PATH))
                /\ Advance
    /\ UNCHANGED <<task, version, which, editor_saves, cwd, git, release_notes_lines>>

\* get_release_notes with open_editor: the editor session runs on the
\* template, its exit status is not looked at, the saved lines are read back
get_release_notes ==
    /\ Running("get_release_notes")
    /\ LET v == Head(pc).arg
       IN  IF RaisesValueError(v)
           THEN Raise /\ UNCHANGED <<release_notes_lines, trace>>
           ELSE \E exited \in ExitCodes :
                    /\ trace' = Append(trace,
                                       Event("editor",
                                             initial_message(normalize_version(v)),
                                             exited))
                    /\ release_notes_lines' =
                           collect_release_notes(readlines(editor_saves),
                                                 normalize_version(v))
                    /\ Advance
    /\ UNCHANGED <<task, version, which, editor_saves, fs, cwd, git>>

\* release reporting "No release notes" without exit()
exit_if_no_notes_reports_only ==
    /\ Running("exit_if_no_notes")
    /\ Advance
    /\ UNCHANGED <<task, version, which, editor_saves, fs, cwd, git,
                   release_notes_lines, trace>>

\* release, lines 65-67: error("No release notes: exiting"); exit()
exit_if_no_notes ==
    /\ Running("exit_if_no_notes")
    /\ IF release_notes_lines = None
       THEN Exit(0, "no_notes")
       ELSE Advance
    /\ UNCHANGED <<task, version, which, editor_saves, fs, cwd, git,
                   release_notes_lines, trace>>

\* release, lines 69-71: the notes written to changelog.tmp
write_changelog ==
    /\ Running("write_changelog")
    /\ trace' = Append(trace, Written(Resolve(cwd, CHANGELOG)))
    /\ IF release_notes_lines = None
       THEN \* open(...) has made the file; writelines(None) is a TypeError
            /\ fs' = WriteFile(fs, Resolve(cwd, CHANGELOG), <<>>)
            /\ Exit(1, "type_error")
       ELSE /\ fs' = WriteFile(fs, Resolve(cwd, CHANGELOG),
                               writelines(release_notes_lines[1]))
            /\ Advance
    /\ UNCHANGED <<task, version, which, editor_saves, cwd, git, release_notes_lines>>

\* what a command that ends the process leaves as working directory: the
\* finally clause of build_js, when the command runs inside it
AfterFinally(step, dir) ==
    IF step.finally = None THEN dir ELSE step.finally[1]

\* the exit status of a command: git refuses what it cannot do, anything
\* else may succeed or fail
Exits(command) ==
    IF git_refuses(command, git, fs, cwd) THEN {128} ELSE ExitCodes

\* the repository after a git command that exits with an error: as it was,
\* except that `git branch -D` of several branches may have deleted some of
\* them (never the one checked out) before it failed on another
git_failure(command, g) ==
    IF Head(command) = "git branch -D "
    THEN LET named == {Args(command)[i] : i \in 1..Len(Args(command))}
             deletable == (named \cap DOMAIN g.branches) \ {g.head}
         IN  {[g EXCEPT !.branches = [b \in (DOMAIN @) \ deleted |-> g.branches[b]]] :
                  deleted \in (SUBSET deletable) \ {named}}
    ELSE {g}

\* run(command) with warn=True and no look at result.exited
run_ignores_status ==
    /\ Running("run")
    /\ LET command == Head(pc).arg
       IN  \E exited \in Exits(command) :
               /\ trace' = Append(trace, Event("run", command, exited))
               /\ Advance
               /\ git' = IF exited = 0 THEN git_effect(command, git, fs, cwd) ELSE git
               /\ UNCHANGED cwd
    /\ UNCHANGED <<task, version, which, editor_saves, fs, release_notes_lines>>

\* run(command): invoke_run(command, hide=True, warn=True), then exit with
\* the command's status when it is not 0
run ==
    /\ Running("run")
    /\ LET command == Head(pc).arg
       IN  \E exited \in Exits(command) :
               /\ trace' = Append(trace, Event("run", command, exited))
               /\ IF exited # 0
                  THEN /\ Exit(exited, "command_failed")
                       /\ cwd' = AfterFinally(Head(pc), cwd)
                       /\ git' \in git_failure(command, git)
                  ELSE /\ Advance
                       /\ git' = git_effect(command, git, fs, cwd)
                       /\ UNCHANGED cwd
    /\ UNCHANGED <<task, version, which, editor_saves, fs, release_notes_lines>>

\* invoke_run(command), line 181: a non-zero status raises UnexpectedExit,
\* which nothing in tasks.py catches; invoke ends the process with that status
invoke_run ==
    /\ Running("invoke_run")
    /\ LET command == Head(pc).arg
       IN  \E exited \in ExitCodes :
               /\ trace' = Append(trace, Event("run", command, exited))
               /\ IF exited # 0
                  THEN /\ Exit(exited, "command_failed")
                       /\ cwd' = AfterFinally(Head(pc), cwd)
                  ELSE /\ Advance
                       /\ UNCHANGED cwd
    /\ UNCHANGED <<task, version, which, editor_saves, fs, git, release_notes_lines>>

\* os.chdir(directory); the trace keeps the directory left and the one entered
chdir ==
    /\ Running("chdir")
    /\ cwd' = Head(pc).arg[1]
    /\ trace' = Append(trace, Event("chdir", <<cwd, Head(pc).arg[1]>>, 0))
    /\ Advance
    /\ UNCHANGED <<task, version, which, editor_saves, fs, git, release_notes_lines>>

\* postrelease, line 137: semver.bump_patch(version) + "-dev"
new_version ==
    /\ Running("bump_patch")
    /\ IF RaisesValueError(Head(pc).arg) THEN Raise ELSE Advance
    /\ UNCHANGED <<task, version, which, editor_saves, fs, cwd, git,
                   release_notes_lines, trace>>

\* the task returns: the process ends with status 0
task_returns ==
    /\ status = "running"
    /\ pc = <<>>
    /\ Exit(0, "completed")
    /\ UNCHANGED <<task, version, which, editor_saves, fs, cwd, git,
                   release_notes_lines, trace>>

(***************************************************************************)
(* Where a run starts: the repository as checked out, on master.           *)
(***************************************************************************)
V120 == <<"1", ".", "2", ".", "0">>
V130rc1 == <<"1", ".", "3", ".", "0", "-", "r", "c", "1">>
V12 == <<"1", ".", "2">>
Versions == {V120, V130rc1, V12}
CommittedVersion == <<"1", ".", "1", ".", "1", "-", "d", "e", "v">>

InitialFiles ==
    (INIT_PATH :> (<<"from ._components import *", NL>>
                       \o VERSION_TEMPLATE(CommittedVersion)))
    @@ (TEST_VERSION_PATH :> TEST_VERSION_TEMPLATE(CommittedVersion))
    @@ (PACKAGE_JSON_PATH :>
           (<<"{", NL, " ", " ", "\"name\"", ":", " ",
              "\"dash-bootstrap-components\"", ",", NL>>
                \o jsversion_line(CommittedVersion)
                \o <<" ", " ", "\"main\"", ":", " ", "\"lib/index.js\"", NL, "}", NL>>))
    @@ (DOCS_REQUIREMENTS_PATH :>
           (<<"dash", NL>> \o documentation_line(CommittedVersion)
                \o <<"gunicorn", NL>>))

InitialRepository ==
    [head |-> MASTER, branches |-> (MASTER :> <<>>), index |-> {}, tags |-> {},
     pushed |-> {}]

\* what the user may leave in the editor: the template as it is, notes added
\* under the heading, the heading deleted, the heading commented out,
\* everything deleted
EditorSaves(version_string) ==
    {initial_message(version_string),
     initial_message(version_string) \o <<"Fixed a bug", NL>>,
     <<"#", " Write the release notes here", NL, "Fixed a bug">>,
     <<"#">> \o VersionHeading(version_string) \o <<NL, "Fixed a bug", NL>>,
     <<>>}

Init ==
    /\ task \in Tasks
    /\ version \in (IF task \in VersionTasks THEN Versions ELSE {<<>>})
    /\ which \in (IF task \in {"prerelease", "release"}
                  THEN SUBSET {Executables[i] : i \in 1..Len(Executables)}
                  ELSE {{Executables[i] : i \in 1..Len(Executables)}})
    /\ editor_saves \in (IF task = "release" /\ ~RaisesValueError(version)
                         THEN EditorSaves(normalize_version(version))
                         ELSE {<<>>})
    /\ pc = Workflow(task, version)
    /\ status = "running"
    /\ exit_code = -1
    /\ outcome = "running"
    /\ fs = InitialFiles
    /\ cwd \in {HERE, DOCS_DIR}
    /\ git = InitialRepository
    /\ release_notes_lines = None
    /\ trace = <<>>

Next ==
    \/ check_prerequisites
    \/ set_documentation_version
    \/ get_release_notes
    \/ exit_if_no_notes
    \/ write_changelog
    \/ set_pyversion
    \/ set_jsversion
    \/ run
    \/ invoke_run
    \/ chdir
    \/ new_version
    \/ task_returns

Spec == Init /\ [][Next]_vars

(***************************************************************************)
(* The version writers called on their own, on any small file.             *)
(***************************************************************************)
OldVersion == <<"0", ".", "1", ".", "0">>

\* the lines a file is made of; the last two have no newline, so they end
\* the file or run into the line that follows
FileLinePool ==
    {VERSION_TEMPLATE(OldVersion),
     <<" ", VERSION_PREFIX, "\"", "x", "\"", NL>>,
     jsversion_line(OldVersion),
     <<" ", " ", " ", " ", JS_MARKER, ":", " ", "\"">> \o OldVersion \o <<"\"", NL>>,
     documentation_line(OldVersion),
     <<"dash", NL>>,
     <<NL>>,
     <<"x">>,
     <<VERSION_PREFIX, "\"", "0", "\"">>}

RECURSIVE SeqsUpTo(_, _)
SeqsUpTo(S, n) ==
    IF n = 0 THEN {<<>>}
    ELSE LET shorter == SeqsUpTo(S, n - 1)
         IN  shorter \cup {Append(q, x) : q \in shorter, x \in S}

FileContents == {join(lines) : lines \in SeqsUpTo(FileLinePool, MaxLines)}

VersionWriters ==
    {"set_pyversion", "set_jsversion", "set_documentation_version"}

InitFiles ==
    /\ task \in VersionWriters
    /\ version \in {V120, V12}
    /\ which = {}
    /\ editor_saves = <<>>
    /\ pc = <<Step(task, version)>>
    /\ status = "running"
    /\ exit_code = -1
    /\ outcome = "running"
    /\ \E content \in FileContents :
           fs = [path \in {INIT_PATH, TEST_VERSION_PATH, PACKAGE_JSON_PATH,
                           DOCS_REQUIREMENTS_PATH} |-> content]
    /\ cwd = HERE
    /\ git = InitialRepository
    /\ release_notes_lines = None
    /\ trace = <<>>

NextFiles ==
    \/ set_pyversion
    \/ set_jsversion
    \/ set_documentation_version

SpecFiles == InitFiles /\ [][NextFiles]_vars

(***************************************************************************)
(* get_release_notes called on its own, on anything the editor may leave.  *)
(***************************************************************************)
NoteLinePool(version_string) ==
    {<<"#", " Write the release notes here", NL>>,
     VersionHeading(version_string) \o <<NL>>,
     <<NL>>,
     <<" ", "\t", NL>>,
     <<"Fixed a bug", NL>>,
     <<"#">> \o version_string,
     <<" ", " ">>,
     <<"1", ".", "2">>,
     <<".", "0", NL>>}

NoteContents ==
    {join(lines) : lines \in SeqsUpTo(NoteLinePool(V120), MaxNotes)}

InitNotes ==
    /\ task = "get_release_notes"
    /\ version \in {V120, V12}
    /\ which = {}
    /\ editor_saves \in NoteContents
    /\ pc = <<Step(task, version)>>
    /\ status = "running"
    /\ exit_code = -1
    /\ outcome = "running"
    /\ fs = InitialFiles
    /\ cwd = HERE
    /\ git = InitialRepository
    /\ release_notes_lines = None
    /\ trace = <<>>

NextNotes == get_release_notes

SpecNotes == InitNotes /\ [][NextNotes]_vars

(***************************************************************************)
(* Properties.                                                             *)
(***************************************************************************)
Last(s) == s[Len(s)]
Commands == {i \in 1..Len(trace) : trace[i].op = "run"}
Writes == {i \in 1..Len(trace) : trace[i].op = "write"}
Sessions == {i \in 1..Len(trace) : trace[i].op = "editor"}
AllExecutables == {Executables[i] : i \in 1..Len(Executables)}
TWINE_UPLOAD == <<"twine upload ", "dist/*">>

\* C1: in every workflow a command that exits with N # 0 is the last thing
\* the process does: it is not run again, nothing follows it, the process
\* has ended and its exit status is N; this holds for twine upload too.
\* Once the process has ended, no step is taken.
C1_FailedCommandEndsTheRun ==
    /\ [](\A i \in Commands :
              trace[i].exited # 0 =>
                  /\ i = Len(trace)
                  /\ status = "exited"
                  /\ exit_code = trace[i].exited)
    /\ [][status = "running"]_vars

C1_Witness ==
    /\ task = "release"
    /\ status = "exited"
    /\ trace # <<>>
    /\ Last(trace) = [op |-> "run", arg |-> TWINE_UPLOAD, exited |-> 2]
    /\ exit_code = 2
    /\ Len(pc) > 1

\* C2: in prerelease and release with one of twine, npm,
\* dash-generate-components missing from the search path, the process only
\* ever stands before the check or has ended with status 127, and no file
\* was written or removed, no command run, no editor opened and the
\* repository not touched.
C2_PrerequisiteGate ==
    (task \in {"prerelease", "release"} /\ which # AllExecutables) =>
        /\ pc = Workflow(task, version)
        /\ status = "exited" => exit_code = 127
        /\ trace = <<>>
        /\ fs = InitialFiles
        /\ git = InitialRepository
        /\ release_notes_lines = None

C2_Witness ==
    /\ task = "release"
    /\ "twine" \in which
    /\ "npm" \notin which
    /\ status = "exited"
    /\ exit_code = 127

\* the trace of these steps when each of their commands exits 0
Succeeded(steps) == [i \in 1..Len(steps) |-> [op |-> "run", arg |-> steps[i].arg, exited |-> 0]]
NonComment(lines) == SelectSeq(lines, LAMBDA line : line[1] # "#")
HasLine(path, line) ==
    \E i \in 1..Len(readlines(fs[path])) : readlines(fs[path])[i] = line
Rejected == task \in VersionTasks /\ RaisesValueError(version) /\ outcome = "value_error"

C4_NoNotesNoFurtherAction ==
    (/\ task = "release"
     /\ Sessions # {}
     /\ ~Contains(join(NonComment(readlines(editor_saves))), version)) =>
        /\ DOMAIN fs = DOMAIN InitialFiles
        /\ \A i \in Writes : trace[i].arg = <<DOCS_REQUIREMENTS_PATH>>
        /\ Commands = {}
        /\ git = InitialRepository
        /\ pc # <<>> /\ Head(pc).op = "exit_if_no_notes"
        /\ status = "exited" => outcome = "no_notes"

C4_Witness ==
    /\ task = "release"
    /\ version = V120
    /\ outcome = "no_notes"
    /\ status = "exited"
    /\ editor_saves = <<"#", " Write the release notes here", NL, "Fixed a bug">>

\* C5, as claimed: the exit status is 0 only when the workflow ran all its
\* steps; it is 127 when a prerequisite is missing; when a command failed
\* it is that command's non-zero status; and the early exit of release for
\* want of release notes is a non-zero status too.
C5_ExitStatus ==
    status = "exited" =>
        /\ exit_code = 0 => pc = <<>>
        /\ (task \in {"prerelease", "release"} /\ which # AllExecutables) =>
               exit_code = 127
        /\ \A i \in Commands :
               trace[i].exited # 0 => exit_code = trace[i].exited
        /\ (task = "release" /\ Sessions # {} /\ release_notes_lines = None) =>
               exit_code # 0

\* C6, as claimed: in release and postrelease run from the directory of
\* tasks.py the commit on the new branch holds every version file the workflow rewrote before it: __init__.py of
\* the package (set_pyversion), package.json (set_jsversion) and, in
\* release, docs/requirements.txt (set_documentation_version).
C6_RewrittenFilesStaged ==
    LET branch == (IF task = "release" THEN <<"release-">> ELSE <<"postrelease-">>)
                      \o version
        rewritten == {trace[i].arg[1] : i \in Writes}
                         \cap {INIT_PATH, PACKAGE_JSON_PATH, DOCS_REQUIREMENTS_PATH}
    IN  (/\ task \in {"release", "postrelease"}
         /\ cwd = HERE
         /\ branch \in DOMAIN git.branches
         /\ git.branches[branch] # <<>>) =>
            rewritten \subseteq Last(git.branches[branch]).files

\* C7: when release(v) has run to completion, docs/requirements.txt pins
\* dash_bootstrap_components==v on its one pin line, __init__.py and
\* package.json show v, branch release-v is master plus the one commit
\* "Bump version to v", tag v is on that commit with changelog.tmp as its
\* message, and the branch and the tag are pushed to origin.
C7_ReleaseResult ==
    (task = "release" /\ outcome = "completed") =>
        LET branch == <<"release-">> \o version
            pin == <<"dash_bootstrap_components", "==">> \o version \o <<NL>>
            docs == readlines(fs[DOCS_REQUIREMENTS_PATH])
        IN  /\ HasLine(DOCS_REQUIREMENTS_PATH, pin)
            /\ \A i \in 1..Len(docs) :
                   Contains(docs[i], <<"dash_bootstrap_components">>) => docs[i] = pin
            /\ HasLine(INIT_PATH,
                       <<"__version__ = ", "\"">> \o version \o <<"\"", NL>>)
            /\ HasLine(PACKAGE_JSON_PATH,
                       <<" ", " ", "\"version\"", ":", " ", "\"">> \o version
                           \o <<"\"", ",", NL>>)
            /\ branch \in DOMAIN git.branches
            /\ git.head = branch
            /\ git.branches[branch] =
                   Append(git.branches[MASTER],
                          [message |-> <<"Bump version to ">> \o version,
                           files |-> Last(git.branches[branch]).files])
            /\ \E t \in git.tags :
                   /\ t.name = version
                   /\ t.commits = git.branches[branch]
                   /\ t.annotation = fs[Resolve(cwd, CHANGELOG)]
                   /\ t.annotation # <<>>
            /\ \A t \in git.tags : t.name = version
            /\ [remote |-> "origin", kind |-> "branch", name |-> branch] \in git.pushed
            /\ [remote |-> "origin", kind |-> "tag", name |-> version] \in git.pushed

C7_Witness ==
    /\ task = "release"
    /\ version = V130rc1
    /\ outcome = "completed"
    /\ exit_code = 0

\* 1.2.0 gives 1.2.1-dev, 1.3.0-rc1 gives 1.3.1-dev
NextDevVersion ==
    CASE version = V120 -> <<"1", ".", "2", ".", "1", "-", "d", "e", "v">>
      [] version = V130rc1 -> <<"1", ".", "3", ".", "1", "-", "d", "e", "v">>
      [] OTHER -> <<>>

\* C8: when postrelease(v) has run to completion, __init__.py and
\* package.json show the patch-bumped version with -dev, branch
\* postrelease-v is master plus the one commit "Back to dev" and is pushed
\* to origin, and there is no tag.
C8_PostreleaseResult ==
    (task = "postrelease" /\ outcome = "completed") =>
        LET branch == <<"postrelease-">> \o version
        IN  /\ HasLine(INIT_PATH,
                       <<"__version__ = ", "\"">> \o NextDevVersion \o <<"\"", NL>>)
            /\ HasLine(PACKAGE_JSON_PATH,
                       <<" ", " ", "\"version\"", ":", " ", "\"">> \o NextDevVersion
                           \o <<"\"", ",", NL>>)
            /\ branch \in DOMAIN git.branches
            /\ git.branches[branch] =
                   Append(git.branches[MASTER],
                          [message |-> <<"Back to dev">>,
                           files |-> Last(git.branches[branch]).files])
            /\ [remote |-> "origin", kind |-> "branch", name |-> branch] \in git.pushed
            /\ git.tags = {}
            /\ \A r \in git.pushed : r.kind # "tag"

C8_Witness ==
    /\ task = "postrelease"
    /\ version = V120
    /\ outcome = "completed"
    /\ HasLine(INIT_PATH, <<"__version__ = ", "\"", "1", ".", "2", ".", "1", "-",
                            "d", "e", "v", "\"", NL>>)

\* the file a version writer rewrites, and the lines it looks for
TargetOf(writer) ==
    CASE writer = "set_pyversion" -> INIT_PATH
      [] writer = "set_jsversion" -> PACKAGE_JSON_PATH
      [] writer = "set_documentation_version" -> DOCS_REQUIREMENTS_PATH
IsMarker(writer, line) ==
    CASE writer = "set_pyversion" -> line # <<>> /\ line[1] = "__version__ = "
      [] writer = "set_jsversion" -> \E i \in 1..Len(line) : line[i] = "\"version\""
      [] writer = "set_documentation_version" ->
             \E i \in 1..Len(line) : line[i] = "dash_bootstrap_components"
Markers(writer, lines) == {i \in 1..Len(lines) : IsMarker(writer, lines[i])}

IsBlank(line) ==
    /\ line # <<>>
    /\ \A i \in 1..Len(line) : line[i] \in {" ", "\t", "\n"}

\* C10: once get_release_notes(v) has read back the editor's lines, its
\* result is None when v is not in the concatenation of the lines that do
\* not start with "#"; otherwise it is those lines in their order, with one
\* "\n" line added exactly when the last of them is not blank, so that it
\* holds no comment line and ends with a blank line.
C10_ReleaseNotes ==
    Sessions # {} =>
        LET kept == NonComment(readlines(editor_saves))
        IN  IF ~Contains(join(kept), version)
            THEN release_notes_lines = None
            ELSE /\ release_notes_lines # None
                 /\ release_notes_lines[1] =
                        (IF IsBlank(Last(kept)) THEN kept ELSE Append(kept, <<NL>>))
                 /\ \A i \in 1..Len(release_notes_lines[1]) :
                        release_notes_lines[1][i][1] # "#"
                 /\ IsBlank(Last(release_notes_lines[1]))

C10_Witness ==
    /\ task = "get_release_notes"
    /\ Sessions # {}
    /\ editor_saves = <<"#", " Write the release notes here", NL,
                        "V", "e", "r", "s", "i", "o", "n", " ", "1", ".", "2", ".", "0", NL,
                        "Fixed a bug", NL>>
    /\ release_notes_lines =
           <<(<<(<<"V", "e", "r", "s", "i", "o", "n", " ", "1", ".", "2", ".", "0", NL>>),
                (<<"Fixed a bug", NL>>), (<<NL>>)>>)>>


-----------------------------------------------------------------------------
\* build_js, lines 169-175

Chdirs == {i \in 1..Len(trace) : trace[i].op = "chdir"}
EnteredFrom == trace[CHOOSE i \in Chdirs : \A j \in Chdirs : i <= j].arg[1]
LeftTry == status = "exited" /\ pc # <<>> /\ Head(pc).finally # None
BuildJsFinished == Cardinality(Chdirs) = 2 \/ (Chdirs # {} /\ LeftTry)

\* C11 (as the specification states it): once build_js has finished, by its
\* last statement or by a failing npm command that ends the process, the
\* working directory is the one the process was in when build_js was entered
C11_WorkingDirectoryRestored ==
    BuildJsFinished => cwd = EnteredFrom


-----------------------------------------------------------------------------
\* prerelease, lines 34-44

GitVerbs ==
    {"git checkout -b ", "git checkout ", "git add ", "git commit -m ",
     "git tag -a ", "git push origin ", "git push -f heroku ",
     "git subtree split --prefix docs -b ", "git branch -D "}
ChangelogPaths == {Resolve(dir, CHANGELOG) : dir \in {HERE, DOCS_DIR}}

\* C12: in every execution of prerelease, to its end or to a failure, no git
\* command runs and the repository stays as it was, no editor session is
\* opened, and neither docs/requirements.txt nor changelog.tmp is written
C12_PrereleaseLeavesRepositoryAlone ==
    task = "prerelease" =>
        /\ \A i \in Commands : trace[i].arg[1] \notin GitVerbs
        /\ git = InitialRepository
        /\ Sessions = {}
        /\ \A i \in Writes :
               trace[i].arg[1] \notin {DOCS_REQUIREMENTS_PATH} \cup ChangelogPaths
        /\ fs[DOCS_REQUIREMENTS_PATH] = InitialFiles[DOCS_REQUIREMENTS_PATH]
        /\ ChangelogPaths \cap DOMAIN fs = {}

\* prerelease has published: twine upload was its last command and succeeded
C12_Witness ==
    /\ task = "prerelease"
    /\ outcome = "completed"
    /\ trace # <<>>
    /\ Last(trace) = Event("run", TWINE_UPLOAD, 0)


-----------------------------------------------------------------------------
\* documentation, lines 108-120, as the pre-task of postrelease, line 123

DocumentationVerbs ==
    <<"cp ", "cp ", "cp ", "git checkout -b ", "git add ", "git commit -m ",
      "git subtree split --prefix docs -b ", "git push -f heroku ",
      "git checkout ", "git branch -D ">>
DocumentationCompleted ==
    /\ Len(trace) >= Len(DocumentationVerbs)
    /\ \A i \in 1..Len(DocumentationVerbs) :
           /\ trace[i].op = "run"
           /\ trace[i].arg[1] = DocumentationVerbs[i]
           /\ trace[i].exited = 0
INV_PUSH_DOCS == <<"inv-push-docs">>
INV_PUSH_DOCS_SUBTREE == <<"inv-push-docs-subtree">>
PostreleaseBranch == <<"postrelease-">> \o version

\* C13: postrelease writes no version file and creates no postrelease branch
\* before the three copies and the seven git commands of documentation have
\* all succeeded, in that order; and once documentation has completed, alone
\* or as that pre-task, inv-push-docs and inv-push-docs-subtree do not exist
\* and master is checked out (until postrelease checks out its own branch)
C13_DocumentationBeforePostrelease ==
    /\ task = "postrelease" =>
           /\ \A i \in 1..Len(trace) :
                  (i > Len(DocumentationVerbs) \/ trace[i].op # "run")
                      => DocumentationCompleted
           /\ PostreleaseBranch \in DOMAIN git.branches => DocumentationCompleted
    /\ task \in {"documentation", "postrelease"} /\ DocumentationCompleted =>
           /\ INV_PUSH_DOCS \notin DOMAIN git.branches
           /\ INV_PUSH_DOCS_SUBTREE \notin DOMAIN git.branches
           /\ git.head \in {MASTER, PostreleaseBranch}
           /\ git.head = PostreleaseBranch =>
                  \E i \in Commands :
                      /\ i > Len(DocumentationVerbs)
                      /\ trace[i].arg[1] = "git checkout -b "
                      /\ trace[i].exited = 0

\* postrelease has written the next development version and is on its branch
C13_Witness ==
    /\ task = "postrelease"
    /\ version = V120
    /\ DocumentationCompleted
    /\ Writes # {}
    /\ git.head = <<"postrelease-">> \o V120


-----------------------------------------------------------------------------
\* set_jsversion, lines 201-210

RECURSIVE Indentation(_)
Indentation(line) ==
    IF line # <<>> /\ Head(line) = " " THEN 1 + Indentation(Tail(line)) ELSE 0
WithoutNewline(line) ==
    IF line # <<>> /\ Last(line) = NL THEN SubSeq(line, 1, Len(line) - 1) ELSE line
HasTrailingComma(line) ==
    WithoutNewline(line) # <<>> /\ Last(WithoutNewline(line)) = ","
RewritesPackageJson == pc # <<>> /\ Head(pc).op = "set_jsversion" /\ version = V120

\* C14 (as the specification states it): set_jsversion keeps the indentation
\* of the version line and its trailing comma, or the absence of one, as it
\* found them
C14_VersionLineFormKept ==
    [][LET old == readlines(fs[PACKAGE_JSON_PATH])
           new == readlines(fs'[PACKAGE_JSON_PATH])
       IN  RewritesPackageJson =>
               \A i \in Markers("set_jsversion", old) :
                   /\ i <= Len(new)
                   /\ Indentation(new[i]) = Indentation(old[i])
                   /\ HasTrailingComma(new[i]) = HasTrailingComma(old[i])]_vars

\* C14: set_jsversion("1.2.0") writes every line holding "version" as the
\* one line of two blanks, "version": "1.2.0", a comma and a newline,
\* whatever the indentation and the ending of the line it replaces
C14_VersionLineFormFixed ==
    [][LET old == readlines(fs[PACKAGE_JSON_PATH])
           new == readlines(fs'[PACKAGE_JSON_PATH])
       IN  RewritesPackageJson =>
               \A i \in Markers("set_jsversion", old) :
                   /\ i <= Len(new)
                   /\ new[i] = <<" ", " ", "\"version\"", ":", " ", "\"", "1", ".",
                                 "2", ".", "0", "\"", ",", NL>>]_vars

\* a version line indented by four blanks and without comma has been replaced
C14_Witness ==
    /\ task = "set_jsversion"
    /\ Writes # {}
    /\ fs[INIT_PATH] =
           <<" ", " ", " ", " ", "\"version\"", ":", " ", "\"", "0", ".", "1", ".",
             "0", "\"", NL>>
    /\ fs[PACKAGE_JSON_PATH] =
           <<" ", " ", "\"version\"", ":", " ", "\"", "1", ".", "2", ".", "0", "\"",
             ",", NL>>


-----------------------------------------------------------------------------
\* release, lines 60-87, with build_publish, lines 150-160

\* what an event of the trace is: the file written, the command and its
\* first argument, the editor session, the change of directory
Label(event) ==
    CASE event.op = "write" ->
             IF event.arg[1] \in ChangelogPaths
             THEN <<"write", CHANGELOG>>
             ELSE <<"write", event.arg[1]>>
      [] event.op = "run" ->
             <<"run", Head(event.arg)>>
                 \o (IF Tail(event.arg) = <<>> THEN <<>> ELSE <<Head(Tail(event.arg))>>)
      [] OTHER -> <<event.op>>

ReleaseOrder ==
    <<(<<"write", DOCS_REQUIREMENTS_PATH>>),
      (<<"editor">>),
      (<<"write", "changelog.tmp">>),
      (<<"run", "rm -rf ", "dash_bootstrap_components/_components">>),
      (<<"run", "rm -rf ", "dist/">>),
      (<<"run", "rm -rf ", "lib/">>),
      (<<"write", INIT_PATH>>),
      (<<"write", TEST_VERSION_PATH>>),
      (<<"write", PACKAGE_JSON_PATH>>),
      (<<"chdir">>),
      (<<"run", "npm install">>),
      (<<"run", "npm publish">>),
      (<<"chdir">>),
      (<<"run", "rm -f ", "dist/*">>),
      (<<"run", "python setup.py sdist">>),
      (<<"run", "twine upload ", "dist/*">>),
      (<<"run", "git checkout -b ", "release-">>),
      (<<"run", "git add ", "package.json">>),
      (<<"run", "git commit -m ", "\"">>),
      (<<"run", "git tag -a ", "\"">>),
      (<<"run", "git push origin ", "release-">>)>>

Published ==
    \E i \in Commands : trace[i].arg[1] \in {"npm publish", "twine upload "}

\* C15: what release has done so far is always a beginning of the one order
\* pin file, editor session, changelog.tmp, cleanup, version writes, npm
\* install, npm publish, sdist, twine upload, branch, add, commit, tag, push,
\* each command but the last one run having succeeded and the prerequisite
\* check having passed before the first of them; nothing is published unless
\* the notes were accepted and written, a tag exists only on the commit and
\* with changelog.tmp as message, and nothing is pushed before the last step
C15_ReleaseOrder ==
    task = "release" =>
        /\ Len(trace) <= Len(ReleaseOrder)
        /\ \A i \in 1..Len(trace) :
               /\ Label(trace[i]) = ReleaseOrder[i]
               /\ i < Len(trace) /\ trace[i].op = "run" => trace[i].exited = 0
        /\ trace # <<>> => which = AllExecutables
        /\ Published =>
               /\ release_notes_lines # None
               /\ \E path \in ChangelogPaths \cap DOMAIN fs :
                      fs[path] = join(release_notes_lines[1])
        /\ \A t \in git.tags :
               /\ t.commits # <<>>
               /\ Last(t.commits).message = <<"Bump version to ">> \o version
               /\ \E path \in ChangelogPaths \cap DOMAIN fs : t.annotation = fs[path]
        /\ git.pushed # {} => Len(trace) = Len(ReleaseOrder)

\* release has run its last step, the push
C15_Witness ==
    /\ task = "release"
    /\ version = V120
    /\ Len(trace) = Len(ReleaseOrder)
    /\ Last(trace).exited = 0
    /\ git.pushed # {}


-----------------------------------------------------------------------------
\* the version writers on files of any shape, lines 184-223

C17_SeveralMarkerLines ==
    [][\A writer \in VersionWriters :
           LET old == readlines(fs[TargetOf(writer)])
               new == readlines(fs'[TargetOf(writer)])
               matching == Markers(writer, old)
               rendered ==
                   CASE writer = "set_pyversion" ->
                            <<"__version__ = ", "\"", "1", ".", "2", ".", "0", "\"", NL>>
                     [] writer = "set_jsversion" ->
                            <<" ", " ", "\"version\"", ":", " ", "\"", "1", ".", "2",
                              ".", "0", "\"", ",", NL>>
                     [] writer = "set_documentation_version" ->
                            <<"dash_bootstrap_components", "==", "1", ".", "2", ".",
                              "0", NL>>
               replaced ==
                   IF writer = "set_pyversion"
                   THEN {i \in matching : \A j \in matching : i <= j}
                   ELSE matching
           IN  (/\ pc # <<>>
                /\ Head(pc).op = writer
                /\ version = V120
                /\ Cardinality(matching) > 1) =>
                   /\ Len(new) = Len(old)
                   /\ \A i \in 1..Len(old) :
                          new[i] = IF i \in replaced THEN rendered ELSE old[i]]_vars

\* set_pyversion("1.2.0") has replaced the first of two marker lines
C17_Witness ==
    /\ task = "set_pyversion"
    /\ Writes # {}
    /\ fs[PACKAGE_JSON_PATH] =
           <<"__version__ = ", "\"", "0", ".", "1", ".", "0", "\"", NL,
             "dash", NL,
             "__version__ = ", "\"", "0", "\"">>
    /\ fs[INIT_PATH] =
           <<"__version__ = ", "\"", "1", ".", "2", ".", "0", "\"", NL,
             "dash", NL,
             "__version__ = ", "\"", "0", "\"">>


-----------------------------------------------------------------------------
\* release, lines 60-67

\* C18: release rewrites docs/requirements.txt before it opens the editor,
\* and when it ends for want of release notes the pin file holds
\* dash_bootstrap_components==<version>, no longer its previous content,
\* while __init__.py, tests/test_version.py and package.json are as they
\* were, with the previous version
C18_PinKeptOnEarlyExit ==
    task = "release" =>
        /\ Sessions # {} => trace[1] = Event("write", <<DOCS_REQUIREMENTS_PATH>>, 0)
        /\ outcome = "no_notes" =>
               /\ HasLine(DOCS_REQUIREMENTS_PATH,
                          <<"dash_bootstrap_components", "==">> \o version \o <<NL>>)
               /\ fs[DOCS_REQUIREMENTS_PATH] # InitialFiles[DOCS_REQUIREMENTS_PATH]
               /\ \A path \in {INIT_PATH, TEST_VERSION_PATH, PACKAGE_JSON_PATH} :
                      fs[path] = InitialFiles[path]
               /\ HasLine(INIT_PATH,
                          <<"__version__ = ", "\"">> \o CommittedVersion \o <<"\"", NL>>)
               /\ HasLine(PACKAGE_JSON_PATH,
                          <<" ", " ", "\"version\"", ":", " ", "\"">> \o CommittedVersion
                              \o <<"\"", ",", NL>>)
               /\ version # CommittedVersion

\* release("1.3.0-rc1") has ended without release notes
C18_Witness ==
    /\ task = "release"
    /\ version = V130rc1
    /\ outcome = "no_notes"
    /\ status = "exited"
    /\ Len(trace) > 1


(***************************************************************************)
(* documentation and postrelease invoked again on the repository the run   *)
(* before left behind.  Every invocation is a new process: it starts at    *)
(* the first step of its task, in the directory the first one was started  *)
(* in (neither task changes it), with the files and the repository as they *)
(* are.  The trace keeps the earlier runs; an "invoke" event separates the *)
(* runs.                                                                   *)
(***************************************************************************)
MaxRuns == 2

DocumentationTasks == {"documentation", "postrelease"}
Invocations == {i \in 1..Len(trace) : trace[i].op = "invoke"}

\* `invoke documentation` or `invoke postrelease <version>` once the process
\* before has ended
invoke_again ==
    /\ status = "exited"
    /\ Cardinality(Invocations) + 1 < MaxRuns
    /\ \E t \in DocumentationTasks :
           /\ task' = t
           /\ pc' = Workflow(t, version)
           /\ trace' = Append(trace, Event("invoke", <<t>>, 0))
    /\ status' = "running"
    /\ exit_code' = -1
    /\ outcome' = "running"
    /\ release_notes_lines' = None
    /\ UNCHANGED <<version, which, editor_saves, fs, cwd, git>>

InitRerun ==
    /\ task \in DocumentationTasks
    /\ version = V120
    /\ which = {Executables[i] : i \in 1..Len(Executables)}
    /\ editor_saves = <<>>
    /\ pc = Workflow(task, version)
    /\ status = "running"
    /\ exit_code = -1
    /\ outcome = "running"
    /\ fs = InitialFiles
    /\ cwd \in {HERE, DOCS_DIR}
    /\ git = InitialRepository
    /\ release_notes_lines = None
    /\ trace = <<>>

NextRerun ==
    \/ run
    \/ new_version
    \/ set_pyversion
    \/ set_jsversion
    \/ task_returns
    \/ invoke_again

SpecRerun == InitRerun /\ [][NextRerun]_vars


\* the events of the run in progress, and of the run before it
LastInvocation ==
    IF Invocations = {} THEN 0
    ELSE CHOOSE i \in Invocations : \A j \in Invocations : j <= i
InvocationBefore ==
    LET earlier == Invocations \ {LastInvocation}
    IN  IF earlier = {} THEN 0
        ELSE CHOOSE i \in earlier : \A j \in earlier : j <= i
ThisRun == SubSeq(trace, LastInvocation + 1, Len(trace))
RunBefore ==
    IF Invocations = {} THEN <<>>
    ELSE SubSeq(trace, InvocationBefore + 1, LastInvocation - 1)

\* a run that ended on a failing command of documentation, its
\* `git checkout -b inv-push-docs` having succeeded
FailedInDocumentation(events) ==
    /\ events # <<>>
    /\ Len(events) <= Len(DocumentationVerbs)
    /\ Last(events).op = "run"
    /\ Last(events).exited # 0
    /\ \E i \in 1..(Len(events) - 1) :
           events[i].arg[1] = "git checkout -b " /\ events[i].exited = 0
Did(events, verb) ==
    \E i \in 1..Len(events) :
        events[i].op = "run" /\ events[i].arg[1] = verb /\ events[i].exited = 0
Tried(events, verb) ==
    \E i \in 1..Len(events) : events[i].op = "run" /\ events[i].arg[1] = verb

\* a following run stops at `git checkout -b inv-push-docs`, refused by git,
\* if it gets that far, and does not push
StopsAtFirstGitStep ==
    /\ ~Tried(ThisRun, "git push -f heroku ")
    /\ \A i \in 1..Len(ThisRun) :
           ThisRun[i].arg[1] \in GitVerbs =>
               /\ i = Len(ThisRun)
               /\ ThisRun[i].arg = <<"git checkout -b ", "inv-push-docs">>
               /\ ThisRun[i].exited # 0
               /\ status = "exited"
               /\ exit_code = ThisRun[i].exited

\* a following run does not get past `git subtree split`: it does not push,
\* a split it tries fails, and when it has ended it has ended on a failing
\* command
StopsBeforePush ==
    /\ ~Tried(ThisRun, "git push -f heroku ")
    /\ \A i \in 1..Len(ThisRun) :
           ThisRun[i].arg[1] = "git subtree split --prefix docs -b " =>
               i = Len(ThisRun) /\ ThisRun[i].exited # 0
    /\ status = "exited" =>
           /\ ThisRun # <<>>
           /\ Last(ThisRun).exited # 0
           /\ exit_code = Last(ThisRun).exited

\* C19 (as the specification states it): when documentation has ended on a
\* failing command after its checkout of inv-push-docs succeeded, the
\* temporary branches made so far exist and inv-push-docs is checked out;
\* and a run of documentation or postrelease that follows fails at its
\* first git command and does not push
C19_LeftOnTemporaryBranch ==
    /\ (status = "exited" /\ FailedInDocumentation(ThisRun)) =>
           /\ INV_PUSH_DOCS \in DOMAIN git.branches
           /\ Did(ThisRun, "git subtree split --prefix docs -b ") =>
                  INV_PUSH_DOCS_SUBTREE \in DOMAIN git.branches
           /\ git.head = INV_PUSH_DOCS
    /\ FailedInDocumentation(RunBefore) => StopsAtFirstGitStep

\* C19: when documentation has ended on a failing command after its
\* checkout of inv-push-docs succeeded and before its `git checkout master`
\* did, the temporary branches made so far exist and inv-push-docs is
\* checked out, and a run of documentation or postrelease that follows
\* fails at its first git command and does not push; when the failing
\* command is the final `git branch -D`, master is checked out and at least
\* one temporary branch is left, and a run that follows fails at the
\* creation of a branch that exists, before it pushes
C19_TemporaryBranchesLeft ==
    /\ (status = "exited" /\ FailedInDocumentation(ThisRun)) =>
           IF Did(ThisRun, "git checkout ")
           THEN /\ git.head = MASTER
                /\ {INV_PUSH_DOCS, INV_PUSH_DOCS_SUBTREE} \cap DOMAIN git.branches # {}
           ELSE /\ git.head = INV_PUSH_DOCS
                /\ INV_PUSH_DOCS \in DOMAIN git.branches
                /\ Did(ThisRun, "git subtree split --prefix docs -b ") =>
                       INV_PUSH_DOCS_SUBTREE \in DOMAIN git.branches
    /\ FailedInDocumentation(RunBefore) =>
           IF Did(RunBefore, "git checkout ")
           THEN StopsBeforePush
           ELSE StopsAtFirstGitStep

\* the push to heroku failed in the first run, and the second run has been
\* refused its `git checkout -b inv-push-docs`
C19_Witness ==
    /\ FailedInDocumentation(RunBefore)
    /\ Tried(RunBefore, "git push -f heroku ")
    /\ ~Tried(RunBefore, "git checkout ")
    /\ status = "exited"
    /\ ThisRun # <<>>
    /\ Last(ThisRun).arg = <<"git checkout -b ", "inv-push-docs">>
    /\ git.head = INV_PUSH_DOCS

=============================================================================
